---- MODULE Spec2Model ----
(***************************************************************************)
(* A model of the reliable transport over UDP of this repository:          *)
(*   src/UDP/udpclient.py  the Sender   (handshake, Go-Back-N send loop)   *)
(*   src/UDP/udpserver.py  the Receiver (handshake, in-order receive loop) *)
(* Packets travel as the byte sequences create_packet builds and           *)
(* parse_packet takes apart.                                               *)
(***************************************************************************)
EXTENDS Integers, Sequences, FiniteSets, TLC

(***************************************************************************)
(* Bounds of the model.  The program sends ' '.join(str(i) for i in        *)
(* range(800)) cut into chunks of 40..80 characters through a window of 5; *)
(* the model sends the first MsgCount numbers cut into chunks of           *)
(* Lmin..Lmax characters through a window of window_size.                  *)
(***************************************************************************)
MsgCount == 2
Lmin == 1
Lmax == 2
window_size == 2
\* the counter of transmitted SYN packets saturates here
MaxSynSent == 6
\* the datagrams a channel that does not drop for ever may drop
MaxDrops == 1
\* the longest of the short payloads the codec is called with
MaxPayloadLen == 2
\* the longest string split_random is called with on its own
MaxDataLen == 4
\* the largest Lmax split_random is called with on its own
MaxSegLen == 3
\* the cuts of one call of split_random that are followed step by step
MaxCuts == 5

(***************************************************************************)
(* Program constants.                                                      *)
(***************************************************************************)
max_handshake_retries == 5
header_size == 9
SYN == 0
SYN_ACK == 1
DATA == 2
ACK == 3
ESTABLISH == 4

Min(a, b) == IF a < b THEN a ELSE b

(***************************************************************************)
(* PacketCodec: struct.pack / struct.unpack with '!BHHHH', the additive    *)
(* checksum, create_packet and parse_packet.                               *)
(***************************************************************************)
\* sum(packet): the bytes lo..hi added up, by halves
RECURSIVE SumRange(_, _, _)
SumRange(s, lo, hi) ==
    IF lo > hi THEN 0
    ELSE IF lo = hi THEN s[lo]
    ELSE LET mid == (lo + hi) \div 2
         IN  SumRange(s, lo, mid) + SumRange(s, mid + 1, hi)

SumBytes(s) == SumRange(s, 1, Len(s))

\* a checksum over the header alone: sum(packet[:header_size])
compute_checksum_header_only(packet) ==
    SumRange(packet, 1, Min(Len(packet), header_size)) % 65536
compute_checksum(packet) == SumBytes(packet) % 65536

\* an 'H' field packed least significant byte first ('<H' for '!H')
pack_H_little_endian(v) == <<v % 256, v \div 256>>
\* one 'H' field: two bytes, most significant first
pack_H(v) == <<v \div 256, v % 256>>
unpack_H(b, at) == b[at] * 256 + b[at + 1]

\* struct.pack raises struct.error for a field out of the range of its format
fits_format(packet_type, seq_num, ack_num, payload_len, checksum) ==
    /\ packet_type \in 0..255
    /\ seq_num \in 0..65535
    /\ ack_num \in 0..65535
    /\ payload_len \in 0..65535
    /\ checksum \in 0..65535

struct_pack(packet_type, seq_num, ack_num, payload_len, checksum) ==
    <<packet_type>> \o pack_H(seq_num) \o pack_H(ack_num)
        \o pack_H(payload_len) \o pack_H(checksum)

StructError == <<"struct.error">>

create_packet(packet_type, seq_num, ack_num, payload) ==
    LET payload_len == Len(payload)
    IN  IF ~fits_format(packet_type, seq_num, ack_num, payload_len, 0)
        THEN StructError
        ELSE LET header_no_checksum ==
                     struct_pack(packet_type, seq_num, ack_num, payload_len, 0)
                 full_packet == header_no_checksum \o payload
                 checksum == compute_checksum(full_packet)
             IN  struct_pack(packet_type, seq_num, ack_num, payload_len, checksum)
                     \o payload

\* a parse_packet that does not compare the checksums
parse_packet_unverified(packet) ==
    IF Len(packet) < header_size
    THEN [ok |-> FALSE, error |-> "short"]
    ELSE [ok |-> TRUE, packet_type |-> packet[1],
          seq_num |-> unpack_H(packet, 2), ack_num |-> unpack_H(packet, 4),
          payload_len |-> unpack_H(packet, 6), checksum |-> unpack_H(packet, 8),
          payload |-> SubSeq(packet, header_size + 1, Len(packet))]

parse_packet(packet) ==
    IF Len(packet) < header_size
    THEN [ok |-> FALSE, error |-> "short"]
    ELSE LET header_bytes == SubSeq(packet, 1, header_size)
             payload_bytes == SubSeq(packet, header_size + 1, Len(packet))
             packet_type == header_bytes[1]
             seq_num == unpack_H(header_bytes, 2)
             ack_num == unpack_H(header_bytes, 4)
             payload_len == unpack_H(header_bytes, 6)
             checksum == unpack_H(header_bytes, 8)
             header_no_checksum ==
                 struct_pack(packet_type, seq_num, ack_num, payload_len, 0)
             full_packet == header_no_checksum \o payload_bytes
             computed_checksum == compute_checksum(full_packet)
         IN  IF computed_checksum # checksum
             THEN [ok |-> FALSE, error |-> "checksum"]
             ELSE [ok |-> TRUE, packet_type |-> packet_type, seq_num |-> seq_num,
                   ack_num |-> ack_num, payload_len |-> payload_len,
                   checksum |-> checksum, payload |-> payload_bytes]

\* data_array[pos] ^= 0xFF, pos counted from 1 here
simulate_corruption(data, pos) ==
    IF Len(data) = 0 THEN data
    ELSE [data EXCEPT ![pos] = 255 - data[pos]]

(***************************************************************************)
(* Strings and their bytes: str.encode() and bytes.decode() on the         *)
(* characters of the message.                                              *)
(***************************************************************************)
Digits == <<"0", "1", "2", "3", "4", "5", "6", "7", "8", "9">>
Chars == {Digits[i] : i \in 1..10} \cup {" ", "n", "u", "l"}

ord(c) ==
    IF c = " " THEN 32
    ELSE IF c = "n" THEN 110
    ELSE IF c = "u" THEN 117
    ELSE IF c = "l" THEN 108
    ELSE 47 + (CHOOSE i \in 1..10 : Digits[i] = c)

chr(b) == CHOOSE c \in Chars : ord(c) = b

encode(str) == [i \in 1..Len(str) |-> ord(str[i])]
decode(bytes) == [i \in 1..Len(bytes) |-> chr(bytes[i])]

\* ' '.join(str(i) for i in range(MsgCount)), MsgCount <= 10
RECURSIVE join_range(_)
join_range(n) ==
    IF n = 0 THEN <<>>
    ELSE IF n = 1 THEN <<Digits[1]>>
    ELSE join_range(n - 1) \o <<" ", Digits[n]>>

total_message == join_range(MsgCount)

(***************************************************************************)
(* Segmenter: split_random.  random.randint is a choice among the chunk    *)
(* sizes it can return, so the result is the set of chunk lists the call   *)
(* can produce.  A chunk is <<bytes, start>>.                              *)
(***************************************************************************)
\* a draw that forgets Lmin: random.randint(1, min(Lmax, remaining))
chunk_sizes_from_one(remaining, lmin, lmax) ==
    IF remaining <= lmin THEN {remaining}
    ELSE 1..Min(lmax, remaining)
chunk_sizes(remaining, lmin, lmax) ==
    IF remaining <= lmin THEN {remaining}
    ELSE lmin..Min(lmax, remaining)

RECURSIVE split_from(_, _, _, _)
split_from(data, current, lmin, lmax) ==
    IF ~(current < Len(data)) THEN {<<>>}
    ELSE UNION {
           {<<<<encode(SubSeq(data, current + 1, current + chunk_size)), current>>>>
                \o rest : rest \in split_from(data, current + chunk_size, lmin, lmax)}
           : chunk_size \in chunk_sizes(Len(data) - current, lmin, lmax)}

split_random(data, lmin, lmax) ==
    {<<<<encode(<<"n", "u", "l", "l">>), 0>>>> \o rest :
        rest \in split_from(data, 0, lmin, lmax)}


(***************************************************************************)
(* State.  The Sender's variables are those of main() in udpclient.py, the *)
(* Receiver's those of main() in udpserver.py; toServer and toClient are   *)
(* the datagrams in flight in each direction.  c_sent, s_sent, syn_sent,   *)
(* store_count and not_found record what the endpoints have done: every    *)
(* packet transmitted, the SYN packets of the handshake loop counted (the  *)
(* count is that of the loop: it is kept while the loop runs and when it   *)
(* is left without success, and dropped when the transfer starts), the     *)
(* assignments to data_received counted, the "cannot retransmit" branch    *)
(* taken.  drops counts the datagrams lost on a channel that loses only so *)
(* many; codec is the state of a call of the packet codec on its own,       *)
(* segmenter that of a call of split_random on its own.                    *)
(***************************************************************************)
VARIABLES
    segments_to_send, cpc, handshake_successful, retries,
    base, next_seq_num, sent_packets,
    spc, handshake_successful1, handshake_successful2, total_num,
    next_idx, data_received,
    toServer, toClient,
    c_sent, s_sent, syn_sent, store_count, not_found,
    drops, codec, segmenter

clientVars == <<segments_to_send, cpc, handshake_successful, retries,
                base, next_seq_num, sent_packets>>
serverVars == <<spc, handshake_successful1, handshake_successful2, total_num,
                next_idx, data_received>>
historyVars == <<c_sent, s_sent, syn_sent, store_count, not_found>>
protocolVars == <<clientVars, serverVars, toServer, toClient, historyVars>>
auxVars == <<drops, codec, segmenter>>
vars == <<protocolVars, auxVars>>

len_segments == Len(segments_to_send)
\* segments_to_send[i] of the program, whose lists count from 0
Segment(i) == segments_to_send[i + 1]

syn_packet == create_packet(SYN, 0, 0, <<>>)
syn_ack_packet == create_packet(SYN_ACK, 0, 0, <<>>)
\* an ESTABLISH that carries the count in its ack field
establish_message_count_in_ack == create_packet(ESTABLISH, 0, len_segments, <<>>)
establish_message == create_packet(ESTABLISH, len_segments, 0, <<>>)
data_packet(i) == create_packet(DATA, i, 0, Segment(i)[1])
ack_packet(n) == create_packet(ACK, 0, n, <<>>)

EmptyMap == [i \in {} |-> 0]

\* where the Sender stands after `while base < len_segments` and the window
\* fill's `while` have been evaluated
GbnTop(b, n) ==
    IF ~(b < len_segments) THEN "done"
    ELSE IF n < len_segments /\ n < b + window_size THEN "fill"
    ELSE "recv"

\* a handshake loop that allows one timeout too many: retries <= max
HsTop_one_more(hs, r) ==
    IF ~hs /\ r <= max_handshake_retries THEN "hs_send"
    ELSE IF ~hs THEN "aborted"
    ELSE GbnTop(1, 1)

\* a Sender without `if not handshake_successful: return` after the loop
HsTop_without_return(hs, r) ==
    IF ~hs /\ r < max_handshake_retries THEN "hs_send"
    ELSE GbnTop(1, 1)

\* where the Sender stands after the handshake loop's condition
HsTop(hs, r) ==
    IF ~hs /\ r < max_handshake_retries THEN "hs_send"
    ELSE IF ~hs THEN "aborted"
    ELSE GbnTop(1, 1)

\* where the Receiver stands after `while next_idx < total_num`
RecvTop(n, t) == IF n < t THEN "receive" ELSE "done"

ProtocolInit ==
    /\ segments_to_send \in split_random(total_message, Lmin, Lmax)
    /\ cpc = "hs_send"
    /\ handshake_successful = FALSE
    /\ retries = 0
    /\ base = 1
    /\ next_seq_num = 1
    /\ sent_packets = EmptyMap
    /\ spc = "handshake"
    /\ handshake_successful1 = FALSE
    /\ handshake_successful2 = FALSE
    /\ total_num = 0
    /\ next_idx = 1
    /\ data_received = EmptyMap
    /\ toServer = {}
    /\ toClient = {}
    /\ c_sent = {}
    /\ s_sent = {}
    /\ syn_sent = 0
    /\ store_count = EmptyMap
    /\ not_found = FALSE

(***************************************************************************)
(* The packet codec called on its own: create_packet on an input, then     *)
(* parse_packet on the packet it returned.                                 *)
(***************************************************************************)
CodecIdle == [pc |-> "idle"]
SegmenterIdle == [pc |-> "idle"]

PacketTypes == {SYN, SYN_ACK, DATA, ACK, ESTABLISH}
\* seq and ack values at the ends of the range of 'H' and around a byte's end
FieldValues == {0, 255, 256, 65535}
PayloadBytes == {0, 48, 255}
ShortPayloads ==
    UNION {[1..n -> PayloadBytes] : n \in 0..MaxPayloadLen}
\* a payload whose bytes add up to more than 65535
WrapPayload == [i \in 1..300 |-> 255]
\* a payload one byte longer than the payload_len field can say
OversizePayload == [i \in 1..65536 |-> 0]

CodecInputs ==
    [packet_type : PacketTypes, seq_num : FieldValues, ack_num : FieldValues,
     payload : ShortPayloads \cup {WrapPayload}]
    \cup [packet_type : {DATA}, seq_num : {1}, ack_num : {0},
          payload : {OversizePayload}]

CodecCall(in) ==
    [pc |-> "input", packet_type |-> in.packet_type, seq_num |-> in.seq_num,
     ack_num |-> in.ack_num, payload |-> in.payload, packet |-> <<>>,
     parsed |-> [ok |-> FALSE, error |-> "none"]]

CodecCreate ==
    /\ codec.pc = "input"
    /\ LET packet == create_packet(codec.packet_type, codec.seq_num,
                                   codec.ack_num, codec.payload)
       IN  codec' = [codec EXCEPT
                        !.pc = IF packet = StructError THEN "struct_error"
                               ELSE "created",
                        !.packet = packet]
    /\ UNCHANGED <<protocolVars, drops, segmenter>>

CodecParse ==
    /\ codec.pc = "created"
    /\ codec' = [codec EXCEPT !.pc = "parsed",
                              !.parsed = parse_packet(codec.packet)]
    /\ UNCHANGED <<protocolVars, drops, segmenter>>

CodecInit ==
    /\ ProtocolInit
    /\ drops = 0
    /\ \E in \in CodecInputs : codec = CodecCall(in)
    /\ segmenter = SegmenterIdle

CodecNext == CodecCreate \/ CodecParse

CodecSpec == CodecInit /\ [][CodecNext]_vars

Init ==
    ProtocolInit /\ drops = 0 /\ codec = CodecIdle /\ segmenter = SegmenterIdle

(***************************************************************************)
(* parse_packet called on a packet of create_packet in which one bit of    *)
(* one byte has been flipped.                                              *)
(***************************************************************************)
\* byte ^ (1 << bit)
xor_bit(byte, bit) ==
    IF (byte \div (2 ^ bit)) % 2 = 1 THEN byte - 2 ^ bit ELSE byte + 2 ^ bit

flip_bit(data, pos, bit) == [data EXCEPT ![pos] = xor_bit(data[pos], bit)]

FlipInputs ==
    [packet_type : PacketTypes, seq_num : FieldValues, ack_num : FieldValues,
     payload : ShortPayloads]
    \cup [packet_type : {DATA}, seq_num : {1}, ack_num : {0},
          payload : {WrapPayload}]

CodecFlip ==
    /\ codec.pc = "created"
    /\ \E pos \in 1..Len(codec.packet), bit \in 0..7 :
          LET flipped == flip_bit(codec.packet, pos, bit)
          IN  codec' = [pc |-> "flipped", created |-> codec.packet,
                        pos |-> pos, bit |-> bit, packet |-> flipped,
                        parsed |-> parse_packet(flipped)]
    /\ UNCHANGED <<protocolVars, drops, segmenter>>

FlipInit ==
    /\ ProtocolInit
    /\ drops = 0
    /\ \E in \in FlipInputs : codec = CodecCall(in)
    /\ segmenter = SegmenterIdle

FlipNext == CodecCreate \/ CodecFlip

FlipSpec == FlipInit /\ [][FlipNext]_vars

(***************************************************************************)
(* split_random called on its own, on a string and a pair of lengths       *)
(* 1 <= Lmin <= Lmax.                                                      *)
(***************************************************************************)
SegmenterChars == {"0", "1", " "}
SegmenterData == UNION {[1..n -> SegmenterChars] : n \in 0..MaxDataLen}

SegmenterInputs ==
    {in \in [data : SegmenterData, lmin : 1..MaxSegLen, lmax : 1..MaxSegLen] :
        in.lmin <= in.lmax}

SegmenterCall(in) ==
    [pc |-> "input", data |-> in.data, lmin |-> in.lmin, lmax |-> in.lmax,
     chunks |-> <<>>]

SegmenterSplit ==
    /\ segmenter.pc = "input"
    /\ \E chunks \in split_random(segmenter.data, segmenter.lmin, segmenter.lmax) :
          segmenter' = [segmenter EXCEPT !.pc = "returned", !.chunks = chunks]
    /\ UNCHANGED <<protocolVars, drops, codec>>

SegmenterInit ==
    /\ ProtocolInit
    /\ drops = 0
    /\ codec = CodecIdle
    /\ \E in \in SegmenterInputs : segmenter = SegmenterCall(in)

SegmenterNext == SegmenterSplit

SegmenterSpec == SegmenterInit /\ [][SegmenterNext]_vars

(***************************************************************************)
(* split_random followed one turn of its `while` at a time, for any pair   *)
(* of lengths 0..MaxSegLen: with Lmin > Lmax random.randint raises         *)
(* ValueError (empty range), with Lmin = 0 it may return 0.                *)
(***************************************************************************)
null_chunk == <<encode(<<"n", "u", "l", "l">>), 0>>

CutInputs == [data : SegmenterData, lmin : 0..MaxSegLen, lmax : 0..MaxSegLen]

CutCall(in) ==
    [pc |-> "loop", data |-> in.data, lmin |-> in.lmin, lmax |-> in.lmax,
     current |-> 0, chunks |-> <<null_chunk>>]

\* one turn of `while current < total_size`
SegmenterCut ==
    /\ segmenter.pc = "loop"
    /\ segmenter.current < Len(segmenter.data)
    /\ Len(segmenter.chunks) <= MaxCuts
    /\ LET data == segmenter.data
           current == segmenter.current
           sizes == chunk_sizes(Len(data) - current, segmenter.lmin,
                                segmenter.lmax)
       IN  IF sizes = {}
           THEN segmenter' = [segmenter EXCEPT !.pc = "ValueError"]
           ELSE \E chunk_size \in sizes :
                   segmenter' =
                       [segmenter EXCEPT
                           !.chunks = Append(@,
                               <<encode(SubSeq(data, current + 1,
                                               current + chunk_size)),
                                 current>>),
                           !.current = current + chunk_size]
    /\ UNCHANGED <<protocolVars, drops, codec>>

\* the `while` has ended: return chunks
SegmenterReturn ==
    /\ segmenter.pc = "loop"
    /\ ~(segmenter.current < Len(segmenter.data))
    /\ segmenter' = [segmenter EXCEPT !.pc = "returned"]
    /\ UNCHANGED <<protocolVars, drops, codec>>

CutInit ==
    /\ ProtocolInit
    /\ drops = 0
    /\ codec = CodecIdle
    /\ \E in \in CutInputs : segmenter = CutCall(in)

CutNext == SegmenterCut \/ SegmenterReturn

CutSpec == CutInit /\ [][CutNext]_vars


(***************************************************************************)
(* The channel.  A datagram in flight may be dropped; a receive takes one  *)
(* datagram in any order and, when keep holds, leaves a duplicate of it in *)
(* flight (a duplicate of a datagram that the receiving end discards       *)
(* changes nothing, so those receives take the datagram).                  *)
(***************************************************************************)
Taken(channel, p, keep) == IF keep THEN channel ELSE channel \ {p}

ChannelDropToServer ==
    /\ \E p \in toServer : toServer' = toServer \ {p}
    /\ UNCHANGED <<clientVars, serverVars, toClient, historyVars, auxVars>>

ChannelDropToClient ==
    /\ \E p \in toClient : toClient' = toClient \ {p}
    /\ UNCHANGED <<clientVars, serverVars, toServer, historyVars, auxVars>>

(***************************************************************************)
(* Sender, handshake (udpclient.py 139-193).                               *)
(***************************************************************************)
\* the loop condition held: sendto(syn_packet), then recvfrom
ClientSendSyn ==
    /\ cpc = "hs_send"
    /\ toServer' = toServer \cup {syn_packet}
    /\ c_sent' = c_sent \cup {syn_packet}
    /\ syn_sent' = Min(syn_sent + 1, MaxSynSent)
    /\ cpc' = "hs_recv"
    /\ UNCHANGED <<segments_to_send, handshake_successful, retries, base,
                   next_seq_num, sent_packets, serverVars, toClient, s_sent,
                   store_count, not_found, auxVars>>

\* except socket.timeout: retries += 1
hs_retries_after_timeout(r) == r + 1

ClientHsTimeout ==
    /\ cpc = "hs_recv"
    /\ retries' = hs_retries_after_timeout(retries)
    /\ cpc' = HsTop(handshake_successful, retries')
    /\ UNCHANGED <<segments_to_send, handshake_successful, base, next_seq_num,
                   sent_packets, serverVars, toServer, toClient, historyVars,
                   auxVars>>

\* random.random() < loss_possibility: the response is discarded, `continue`
ClientHsRecvLost ==
    /\ cpc = "hs_recv"
    /\ \E p \in toClient : toClient' = toClient \ {p}
    /\ cpc' = HsTop(handshake_successful, retries)
    /\ UNCHANGED <<segments_to_send, handshake_successful, retries, base,
                   next_seq_num, sent_packets, serverVars, toServer,
                   historyVars, auxVars>>

\* parse_packet(response) and what follows it
ClientHsProcess(response) ==
    LET r == parse_packet(response)
    IN  IF r.ok /\ r.packet_type = SYN_ACK
        THEN /\ toServer' = toServer \cup {establish_message}
             /\ c_sent' = c_sent \cup {establish_message}
             /\ handshake_successful' = TRUE
             /\ cpc' = HsTop(TRUE, retries)
             /\ syn_sent' = 0
        ELSE /\ cpc' = HsTop(handshake_successful, retries)
             /\ UNCHANGED <<toServer, c_sent, handshake_successful, syn_sent>>

ClientHsRecvPacket(p, keep) ==
    /\ cpc = "hs_recv"
    /\ p \in toClient
    /\ toClient' = Taken(toClient, p, keep)
    /\ ClientHsProcess(p)
    /\ UNCHANGED <<segments_to_send, retries, base, next_seq_num, sent_packets,
                   serverVars, s_sent, store_count, not_found, auxVars>>

ClientHsRecv == \E p \in toClient, keep \in BOOLEAN : ClientHsRecvPacket(p, keep)

\* random.random() < corruption_rate: simulate_corruption(response)
ClientHsRecvCorruptPacket(p, pos) ==
    /\ cpc = "hs_recv"
    /\ p \in toClient
    /\ toClient' = toClient \ {p}
    /\ ClientHsProcess(simulate_corruption(p, pos))
    /\ UNCHANGED <<segments_to_send, retries, base, next_seq_num, sent_packets,
                   serverVars, s_sent, store_count, not_found, auxVars>>

ClientHsRecvCorrupt ==
    \E p \in toClient : \E pos \in 1..Len(p) : ClientHsRecvCorruptPacket(p, pos)

\* except Exception: break (sendto or recvfrom failed), then `return`
ClientHsError ==
    /\ cpc \in {"hs_send", "hs_recv"}
    /\ cpc' = "aborted"
    /\ UNCHANGED <<segments_to_send, handshake_successful, retries, base,
                   next_seq_num, sent_packets, serverVars, toServer, toClient,
                   historyVars, auxVars>>

(***************************************************************************)
(* Sender, Go-Back-N loop (udpclient.py 198-276).                          *)
(***************************************************************************)
\* one turn of the window fill's `while`
ClientSendData ==
    /\ cpc = "fill"
    /\ LET packet == data_packet(next_seq_num)
           start_byte == Segment(next_seq_num)[2]
       IN  /\ toServer' = toServer \cup {packet}
           /\ c_sent' = c_sent \cup {packet}
           /\ sent_packets' = (next_seq_num :> <<packet, start_byte>>) @@ sent_packets
    /\ next_seq_num' = next_seq_num + 1
    /\ cpc' = GbnTop(base, next_seq_num')
    /\ UNCHANGED <<segments_to_send, handshake_successful, retries, base,
                   serverVars, toClient, s_sent, syn_sent, store_count,
                   not_found, auxVars>>

\* a timeout handler that sends the oldest packet alone
retransmit_range_oldest_only(b, n) == IF b < n THEN {b} ELSE {}
\* range(base, next_seq_num) of the timeout handler
retransmit_range(b, n) == b..(n - 1)

\* except socket.timeout: the window is sent again
ClientTimeout ==
    /\ cpc = "recv"
    /\ LET again == {sent_packets[i][1] :
                        i \in retransmit_range(base, next_seq_num)
                                 \cap DOMAIN sent_packets}
       IN  /\ toServer' = toServer \cup again
           /\ c_sent' = c_sent \cup again
    /\ not_found' = (not_found \/
                     \E i \in retransmit_range(base, next_seq_num) :
                         i \notin DOMAIN sent_packets)
    /\ cpc' = GbnTop(base, next_seq_num)
    /\ UNCHANGED <<segments_to_send, handshake_successful, retries, base,
                   next_seq_num, sent_packets, serverVars, toClient, s_sent,
                   syn_sent, store_count, auxVars>>

\* random.random() < loss_possibility: the ACK is discarded, `continue`
ClientRecvLost ==
    /\ cpc = "recv"
    /\ \E p \in toClient : toClient' = toClient \ {p}
    /\ cpc' = GbnTop(base, next_seq_num)
    /\ UNCHANGED <<segments_to_send, handshake_successful, retries, base,
                   next_seq_num, sent_packets, serverVars, toServer,
                   historyVars, auxVars>>

\* an ACK handler without `if ack_num >= base`
ack_advances_always(ack_num, b) == TRUE
\* `if ack_num >= base`
ack_advances(ack_num, b) == ack_num >= b
\* an ACK handler that forgets the oldest index: range(base + 1, ack_num + 1)
acked_range_skips_base(b, ack_num) == (b + 1)..ack_num
\* range(base, ack_num + 1), the indices an ACK acknowledges
acked_range(b, ack_num) == b..ack_num
\* an ACK handler that slides one index too far: base = ack_num + 2
base_after_ack_plus_one(ack_num) == ack_num + 2
\* an ACK handler that takes any ACK for the whole window: base = next_seq_num
base_after_ack_whole_window(ack_num) == next_seq_num
\* base = ack_num + 1
base_after_ack(ack_num) == ack_num + 1

\* parse_packet(ack_response) and what follows it
ClientProcess(ack_response) ==
    LET r == parse_packet(ack_response)
    IN  IF r.ok /\ r.packet_type = ACK /\ ack_advances(r.ack_num, base)
        THEN /\ sent_packets' =
                    [i \in DOMAIN sent_packets \ acked_range(base, r.ack_num)
                        |-> sent_packets[i]]
             /\ base' = base_after_ack(r.ack_num)
             /\ cpc' = GbnTop(base', next_seq_num)
        ELSE /\ cpc' = GbnTop(base, next_seq_num)
             /\ UNCHANGED <<sent_packets, base>>

ClientRecvPacket(p, keep) ==
    /\ cpc = "recv"
    /\ p \in toClient
    /\ toClient' = Taken(toClient, p, keep)
    /\ ClientProcess(p)
    /\ UNCHANGED <<segments_to_send, handshake_successful, retries,
                   next_seq_num, serverVars, toServer, historyVars, auxVars>>

ClientRecv == \E p \in toClient, keep \in BOOLEAN : ClientRecvPacket(p, keep)

\* random.random() < corruption_rate: simulate_corruption(ack_response)
ClientRecvCorruptPacket(p, pos) ==
    /\ cpc = "recv"
    /\ p \in toClient
    /\ toClient' = toClient \ {p}
    /\ ClientProcess(simulate_corruption(p, pos))
    /\ UNCHANGED <<segments_to_send, handshake_successful, retries,
                   next_seq_num, serverVars, toServer, historyVars, auxVars>>

ClientRecvCorrupt ==
    \E p \in toClient : \E pos \in 1..Len(p) : ClientRecvCorruptPacket(p, pos)


(***************************************************************************)
(* Receiver, handshake (udpserver.py 107-133).                             *)
(***************************************************************************)
\* parse_packet(data) and what follows it; total_num takes the seq field of
\* every packet that parses
ServerHsProcess(data) ==
    LET r == parse_packet(data)
    IN  IF ~r.ok
        THEN UNCHANGED <<spc, handshake_successful1, handshake_successful2,
                         total_num, toClient, s_sent>>
        ELSE /\ total_num' = r.seq_num
             /\ IF r.packet_type = SYN
                THEN /\ toClient' = toClient \cup {syn_ack_packet}
                     /\ s_sent' = s_sent \cup {syn_ack_packet}
                     /\ handshake_successful1' = TRUE
                     /\ UNCHANGED handshake_successful2
                ELSE IF r.packet_type = ESTABLISH
                THEN /\ handshake_successful2' = TRUE
                     /\ UNCHANGED <<handshake_successful1, toClient, s_sent>>
                ELSE UNCHANGED <<handshake_successful1, handshake_successful2,
                                 toClient, s_sent>>
             /\ spc' = IF handshake_successful1' /\ handshake_successful2'
                       THEN RecvTop(next_idx, total_num')
                       ELSE "handshake"

ServerHsRecvPacket(p, keep) ==
    /\ spc = "handshake"
    /\ p \in toServer
    /\ toServer' = Taken(toServer, p, keep)
    /\ ServerHsProcess(p)
    /\ UNCHANGED <<clientVars, next_idx, data_received, c_sent, syn_sent,
                   store_count, not_found, auxVars>>

ServerHsRecv == \E p \in toServer, keep \in BOOLEAN : ServerHsRecvPacket(p, keep)

\* random.random() < corruption_rate: simulate_corruption(data)
ServerHsRecvCorruptPacket(p, pos) ==
    /\ spc = "handshake"
    /\ p \in toServer
    /\ toServer' = toServer \ {p}
    /\ ServerHsProcess(simulate_corruption(p, pos))
    /\ UNCHANGED <<clientVars, next_idx, data_received, c_sent, syn_sent,
                   store_count, not_found, auxVars>>

ServerHsRecvCorrupt ==
    \E p \in toServer : \E pos \in 1..Len(p) : ServerHsRecvCorruptPacket(p, pos)

(***************************************************************************)
(* Receiver, receive loop (udpserver.py 137-199).                          *)
(***************************************************************************)
\* random.random() < loss_possibility: the datagram is discarded, `continue`
ServerRecvLost ==
    /\ spc = "receive"
    /\ \E p \in toServer : toServer' = toServer \ {p}
    /\ UNCHANGED <<clientVars, serverVars, toClient, historyVars, auxVars>>

\* a receive loop without `if packet_type == 2`
is_data_any_type(packet_type) == TRUE
\* `if packet_type == 2`
is_data(packet_type) == packet_type = DATA

\* a Receiver that also takes what lies ahead: seq_num >= next_idx
in_order_or_ahead(seq_num, idx) == seq_num >= idx
\* `if seq_num == next_idx`
in_order(seq_num, idx) == seq_num = idx

\* a drain with one `next_idx += 1` too many
drain_steps_twice(idx, received) ==
    IF idx \in DOMAIN received THEN idx + 2 ELSE idx
\* `while next_idx in data_received: next_idx += 1`
RECURSIVE drain(_, _)
drain(idx, received) ==
    IF idx \in DOMAIN received THEN drain(idx + 1, received) ELSE idx

\* a Receiver that acknowledges the index it waits for: next_idx
ack_num_for_expected(idx) == idx
\* the ack field of the cumulative ACK: next_idx - 1
ack_num_for(idx) == idx - 1

\* parse_packet(data) and what follows it
ServerProcess(data) ==
    LET r == parse_packet(data)
    IN  IF r.ok /\ is_data(r.packet_type)
        THEN IF in_order(r.seq_num, next_idx)
             THEN /\ data_received' = (r.seq_num :> r.payload) @@ data_received
                  /\ store_count' =
                        (r.seq_num :> (IF r.seq_num \in DOMAIN store_count
                                       THEN store_count[r.seq_num] + 1 ELSE 1))
                            @@ store_count
                  /\ next_idx' = drain(next_idx, data_received')
                  /\ toClient' = toClient \cup {ack_packet(ack_num_for(next_idx'))}
                  /\ s_sent' = s_sent \cup {ack_packet(ack_num_for(next_idx'))}
                  /\ spc' = RecvTop(next_idx', total_num)
             ELSE /\ toClient' = toClient \cup {ack_packet(ack_num_for(next_idx))}
                  /\ s_sent' = s_sent \cup {ack_packet(ack_num_for(next_idx))}
                  /\ UNCHANGED <<data_received, store_count, next_idx, spc>>
        ELSE UNCHANGED <<data_received, store_count, next_idx, spc, toClient,
                         s_sent>>

ServerRecvPacket(p, keep) ==
    /\ spc = "receive"
    /\ p \in toServer
    /\ toServer' = Taken(toServer, p, keep)
    /\ ServerProcess(p)
    /\ UNCHANGED <<clientVars, handshake_successful1, handshake_successful2,
                   total_num, c_sent, syn_sent, not_found, auxVars>>

ServerRecv == \E p \in toServer, keep \in BOOLEAN : ServerRecvPacket(p, keep)

\* random.random() < corruption_rate: simulate_corruption(data)
ServerRecvCorruptPacket(p, pos) ==
    /\ spc = "receive"
    /\ p \in toServer
    /\ toServer' = toServer \ {p}
    /\ ServerProcess(simulate_corruption(p, pos))
    /\ UNCHANGED <<clientVars, handshake_successful1, handshake_successful2,
                   total_num, c_sent, syn_sent, not_found, auxVars>>

ServerRecvCorrupt ==
    \E p \in toServer : \E pos \in 1..Len(p) : ServerRecvCorruptPacket(p, pos)

\* a reassembly that stops one index short: range(1, next_idx - 1)
reassembly_end_short(idx) == idx - 1
\* the end of range(1, next_idx) in the reassembly
reassembly_end(idx) == idx

\* the reassembly after the loop: the payloads of 1..next_idx-1 decoded and
\* joined, a marker standing for an index that is not stored
RECURSIVE reassemble(_, _, _)
reassemble(i, idx, received) ==
    IF ~(i < idx) THEN <<>>
    ELSE (IF i \in DOMAIN received THEN decode(received[i])
          ELSE <<"[", "missing", i, "]">>)
         \o reassemble(i + 1, idx, received)

res_data == reassemble(1, reassembly_end(next_idx), data_received)

(***************************************************************************)
(* The two programs on a channel that drops, duplicates, reorders and      *)
(* corrupts.                                                               *)
(***************************************************************************)
Next ==
    \/ ChannelDropToServer
    \/ ChannelDropToClient
    \/ ClientSendSyn
    \/ ClientHsTimeout
    \/ ClientHsRecvLost
    \/ ClientHsRecv
    \/ ClientHsRecvCorrupt
    \/ ClientHsError
    \/ ClientSendData
    \/ ClientTimeout
    \/ ClientRecvLost
    \/ ClientRecv
    \/ ClientRecvCorrupt
    \/ ServerHsRecv
    \/ ServerHsRecvCorrupt
    \/ ServerRecvLost
    \/ ServerRecv
    \/ ServerRecvCorrupt

Spec == Init /\ [][Next]_vars

(***************************************************************************)
(* The two programs on a channel that reorders, corrupts nothing, makes no *)
(* duplicates and drops at most MaxDrops datagrams, so that it does not    *)
(* drop for ever.  Each program keeps running: the Sender, whose recvfrom  *)
(* has a timeout, always has a step to take, and a datagram that stays in  *)
(* flight is in the end received by the program that waits for it (weak    *)
(* fairness of the Sender's steps and of each receive).                    *)
(***************************************************************************)
DropToServer ==
    /\ drops < MaxDrops
    /\ drops' = drops + 1
    /\ \E p \in toServer : toServer' = toServer \ {p}
    /\ UNCHANGED <<clientVars, serverVars, toClient, historyVars, codec, segmenter>>

DropToClient ==
    /\ drops < MaxDrops
    /\ drops' = drops + 1
    /\ \E p \in toClient : toClient' = toClient \ {p}
    /\ UNCHANGED <<clientVars, serverVars, toServer, historyVars, codec, segmenter>>

ClientHsRecvOne == \E p \in toClient : ClientHsRecvPacket(p, FALSE)
ClientRecvOne == \E p \in toClient : ClientRecvPacket(p, FALSE)
ServerHsRecvOne == \E p \in toServer : ServerHsRecvPacket(p, FALSE)
ServerRecvOne == \E p \in toServer : ServerRecvPacket(p, FALSE)

LossyClientStep ==
    \/ ClientSendSyn
    \/ ClientHsTimeout
    \/ ClientHsRecvOne
    \/ ClientSendData
    \/ ClientTimeout
    \/ ClientRecvOne

LossyNext ==
    \/ DropToServer
    \/ DropToClient
    \/ LossyClientStep
    \/ ServerHsRecvOne
    \/ ServerRecvOne

ReceiveFairness ==
    /\ WF_vars(ClientHsRecvOne)
    /\ WF_vars(ClientRecvOne)
    /\ WF_vars(ServerHsRecvOne)
    /\ WF_vars(ServerRecvOne)

LossySpec ==
    Init /\ [][LossyNext]_vars /\ WF_vars(LossyClientStep) /\ ReceiveFairness


(***************************************************************************)
(* The two programs on a channel with no loss and no corruption: it drops  *)
(* nothing, corrupts nothing, makes no duplicates (it may reorder), and    *)
(* delivers within the Sender's timeout, so that a recvfrom of the Sender  *)
(* times out only when nothing is on its way: no datagram in flight to the *)
(* Sender, and none in flight to a Receiver that would answer it.  On such *)
(* a channel the handshake never times out.                                *)
(***************************************************************************)
Quiet == toClient = {} /\ (toServer = {} \/ spc = "done")

ClientTimeoutWhenQuiet == Quiet /\ ClientTimeout

IdealNext ==
    \/ ClientSendSyn
    \/ ClientHsRecvOne
    \/ ClientSendData
    \/ ClientTimeoutWhenQuiet
    \/ ClientRecvOne
    \/ ServerHsRecvOne
    \/ ServerRecvOne

IdealSpec == Init /\ [][IdealNext]_vars /\ WF_vars(IdealNext)

(***************************************************************************)
(* The two programs on a channel that corrupts and reorders, while nothing *)
(* is lost: no datagram is dropped and the loss simulation of the programs *)
(* (random.random() < loss_possibility) never fires.                       *)
(***************************************************************************)
CorruptNext ==
    \/ ClientSendSyn
    \/ ClientHsTimeout
    \/ ClientHsRecvOne
    \/ ClientHsRecvCorrupt
    \/ ClientSendData
    \/ ClientTimeout
    \/ ClientRecvOne
    \/ ClientRecvCorrupt
    \/ ServerHsRecvOne
    \/ ServerHsRecvCorrupt
    \/ ServerRecvOne
    \/ ServerRecvCorrupt

CorruptSpec == Init /\ [][CorruptNext]_vars

(***************************************************************************)
(* The Receiver on a port that is open to other senders.  server_socket is *)
(* bound to a UDP port and recvfrom takes a datagram from any address: an  *)
(* ESTABLISH that is not this Sender's answer to a SYN_ACK (one of an      *)
(* earlier run of the Sender, delayed, or one of another host) may arrive  *)
(* while the Receiver is in its handshake loop.                            *)
(***************************************************************************)
StrayEstablish ==
    /\ spc = "handshake"
    /\ ~handshake_successful
    /\ establish_message \notin toServer
    /\ toServer' = toServer \cup {establish_message}
    /\ UNCHANGED <<clientVars, serverVars, toClient, historyVars, auxVars>>

OpenNext == StrayEstablish \/ LossyNext

OpenSpec == Init /\ [][OpenNext]_vars

(***************************************************************************)
(* The claims.                                                             *)
(***************************************************************************)
SenderDone == cpc = "done"
ReceiverDone == spc = "done"
\* the indices of the real segments
Indices == 1..(len_segments - 1)

\* C3: whenever the Sender's loop has exited with base = len_segments, every
\* index 1..len_segments-1 has been transmitted by the Sender and stored in
\* order by the Receiver, whose next_idx is len_segments.
C3_SenderDoneMeansDelivered ==
    SenderDone =>
        /\ base = len_segments
        /\ \A i \in Indices : data_packet(i) \in c_sent
        /\ next_idx = len_segments
        /\ DOMAIN data_received = Indices
        /\ \A i \in Indices : data_received[i] = Segment(i)[1]

\* the Sender is done with more segments than the window holds
C3_Witness == SenderDone /\ len_segments - 1 > window_size

\* C4: in every state the Receiver holds exactly the payloads of the indices
\* below next_idx, each stored once and equal to the Sender's segment.
C4_StoredExactlyBelowExpected ==
    /\ DOMAIN data_received = 1..(next_idx - 1)
    /\ DOMAIN store_count = 1..(next_idx - 1)
    /\ \A i \in 1..(next_idx - 1) :
          /\ data_received[i] = Segment(i)[1]
          /\ store_count[i] = 1

\* all segments are stored while a first transmission's copy is still in flight
C4_Witness ==
    /\ next_idx = len_segments
    /\ len_segments > 3
    /\ data_packet(1) \in toServer

\* C5: once the handshake has succeeded, base <= next_seq_num <= base +
\* window_size, the keys of sent_packets are exactly base..next_seq_num-1, and
\* the "cannot retransmit" branch has not been taken.
C5_WindowInvariant ==
    handshake_successful =>
        /\ base <= next_seq_num
        /\ next_seq_num <= base + window_size
        /\ DOMAIN sent_packets = base..(next_seq_num - 1)
        /\ Cardinality(DOMAIN sent_packets) <= window_size
        /\ ~not_found

\* the window is full after it has slid, and an ACK below base is in flight
C5_Witness ==
    /\ cpc = "recv"
    /\ base > 1
    /\ next_seq_num = base + window_size
    /\ \E n \in 0..(base - 1) : ack_packet(n) \in toClient

\* C6: when the Receiver, in its receive loop, takes a DATA packet whose seq is
\* not next_idx (a duplicate of an acknowledged packet, or one ahead), next_idx
\* and the stored payloads stay as they are and an ACK carrying next_idx - 1 is
\* sent.
C6_OutOfOrderReAcked ==
    [][\A p \in toServer, keep \in BOOLEAN :
          (/\ spc = "receive"
           /\ ServerRecvPacket(p, keep)
           /\ parse_packet(p).ok
           /\ parse_packet(p).packet_type = DATA
           /\ parse_packet(p).seq_num # next_idx)
          => /\ next_idx' = next_idx
             /\ data_received' = data_received
             /\ store_count' = store_count
             /\ spc' = spc
             /\ toClient' = toClient \cup {create_packet(ACK, 0, next_idx - 1, <<>>)}
             /\ create_packet(ACK, 0, next_idx - 1, <<>>) \in s_sent']_vars

\* a DATA packet that was not the expected one has been answered (ACK 0 is
\* sent by that branch alone) and the transfer has gone on past it
C6_Witness ==
    /\ ack_packet(0) \in s_sent
    /\ next_idx > 2
    /\ data_packet(1) \in toServer

\* C8: as long as no SYN has got through to the Receiver, the Receiver stays in
\* its handshake loop without an ESTABLISH, the Sender has sent nothing but SYN
\* packets, and a Sender that has used up its retries has sent exactly
\* max_handshake_retries of them and has aborted.
C8_EverySynDropped ==
    ~handshake_successful1 =>
        /\ spc = "handshake"
        /\ ~handshake_successful2
        /\ c_sent \subseteq {syn_packet}
        /\ ~handshake_successful
        /\ retries >= max_handshake_retries =>
              /\ cpc = "aborted"
              /\ syn_sent = max_handshake_retries

\* the Sender has aborted after its last timeout, no SYN having got through
C8_Witness ==
    /\ ~handshake_successful1
    /\ cpc = "aborted"
    /\ retries = max_handshake_retries
    /\ syn_sent = max_handshake_retries

\* C9: the Sender transmits at most max_handshake_retries SYN packets in the
\* handshake, whatever the channel does.
C9_SynPacketsBounded == syn_sent <= max_handshake_retries


\* C1: on a channel that drops datagrams but corrupts none and does not drop
\* for ever, the Receiver in the end leaves its loops with the whole message.
\* The Receiver leaves its handshake loop only on an ESTABLISH, which the
\* Sender transmits once, on its SYN_ACK, and never again; so the claim needs
\* that an ESTABLISH the Receiver has not yet taken is still in flight.
C1_ReceiverCanComplete ==
    (handshake_successful /\ ~handshake_successful2)
        => establish_message \in toServer

\* C2: once the handshake has succeeded the Sender's loop in the end exits
\* with base = len_segments, also when ACKs are dropped.  The loop exits only
\* on an ACK of len_segments - 1, and a Receiver that has left its receive
\* loop sends none; so the claim needs that, once the Receiver has left, the
\* Sender has finished or that ACK is still in flight.
C2_SenderCanComplete ==
    (ReceiverDone /\ ~SenderDone) => ack_packet(len_segments - 1) \in toClient

\* C7: on a channel with no loss and no corruption both programs in the end
\* leave their loops, the Receiver's reassembled res_data is the Sender's
\* total_message character for character, and the Sender's final base is
\* len_segments, the segment count it announced in its ESTABLISH.
C7_IdealTransferCompletes ==
    <>[](/\ SenderDone
         /\ ReceiverDone
         /\ res_data = total_message
         /\ base = len_segments)

\* both programs are done, the message is whole, and it took more segments
\* than the window holds
C7_Witness ==
    /\ SenderDone
    /\ ReceiverDone
    /\ res_data = total_message
    /\ base = len_segments
    /\ len_segments - 1 > window_size

\* the round trip of one call: parse_packet succeeds on what create_packet
\* returned and gives back the type, seq, ack, payload length and payload
RoundTripHolds ==
    /\ codec.parsed.ok
    /\ codec.parsed.packet_type = codec.packet_type
    /\ codec.parsed.seq_num = codec.seq_num
    /\ codec.parsed.ack_num = codec.ack_num
    /\ codec.parsed.payload_len = Len(codec.payload)
    /\ codec.parsed.payload = codec.payload

\* C10 as stated: for every type in 0..4, every seq and ack in 0..65535 and
\* every payload, parse_packet(create_packet(type, seq, ack, payload))
\* succeeds and returns the same type, seq, ack, len(payload) and payload.
C10_RoundTripEveryPayload ==
    /\ codec.pc # "struct_error"
    /\ codec.pc = "parsed" => RoundTripHolds

\* C10 amended: the same for every payload of at most 65535 bytes, the
\* lengths the payload_len field can say.
C10_RoundTrip ==
    Len(codec.payload) <= 65535 =>
        /\ codec.pc # "struct_error"
        /\ codec.pc = "parsed" => RoundTripHolds

\* a DATA packet with seq and ack of two bytes each and a payload whose
\* checksum wraps has gone through create_packet and parse_packet
C10_Witness ==
    /\ codec.pc = "parsed"
    /\ codec.parsed.ok
    /\ codec.packet_type = DATA
    /\ codec.seq_num = 65535
    /\ codec.ack_num = 256
    /\ codec.payload = WrapPayload
    /\ SumBytes(codec.packet) > 65535

\* C11: for every packet of create_packet and every flip of one bit of one of
\* its bytes (header, checksum field or payload), parse_packet rejects the
\* flipped packet with a checksum error and returns no packet.
C11_BitFlipRejected ==
    codec.pc = "flipped" =>
        /\ ~codec.parsed.ok
        /\ codec.parsed.error = "checksum"

\* a bit of the checksum field of a packet with a payload has been flipped and
\* the packet has gone through parse_packet
C11_Witness ==
    /\ codec.pc = "flipped"
    /\ codec.pos = header_size
    /\ codec.bit = 7
    /\ Len(codec.created) > header_size
    /\ ~codec.parsed.ok

\* the bytes of the chunks from..Len(chunks), joined
RECURSIVE JoinChunks(_, _)
JoinChunks(chunks, from) ==
    IF from > Len(chunks) THEN <<>>
    ELSE chunks[from][1] \o JoinChunks(chunks, from + 1)

\* the lengths of the chunks from..to, added up
RECURSIVE ChunkLenSum(_, _, _)
ChunkLenSum(chunks, from, to) ==
    IF from > to THEN 0
    ELSE Len(chunks[from][1]) + ChunkLenSum(chunks, from + 1, to)

C13_InvalidReplyKeepsWaiting ==
    [][\A p \in toClient :
          (\/ \E pos \in 1..Len(p) : ClientHsRecvCorruptPacket(p, pos)
           \/ \E keep \in BOOLEAN :
                 /\ ClientHsRecvPacket(p, keep)
                 /\ parse_packet(p).ok
                 /\ parse_packet(p).packet_type # SYN_ACK)
          => cpc' = "hs_recv"]_vars

\* C14: every packet of the Sender that is not a SYN is sent after the
\* handshake has succeeded on a SYN_ACK the Receiver sent, the ESTABLISH
\* among the packets sent by then; a Sender whose handshake has not succeeded
\* (retries used up, or an error) has sent nothing but SYN packets.
C14_TransferOnlyAfterSynAck ==
    /\ \A p \in c_sent :
          p # syn_packet =>
              /\ handshake_successful
              /\ syn_ack_packet \in s_sent
              /\ establish_message \in c_sent
    /\ cpc = "aborted" =>
          /\ ~handshake_successful
          /\ c_sent \subseteq {syn_packet}

\* DATA has been sent after a handshake that needed a second SYN
C14_Witness ==
    /\ handshake_successful
    /\ retries >= 1
    /\ data_packet(1) \in c_sent
    /\ establish_message \in c_sent

\* C15: the Receiver is in, or past, its receive loop only with total_num equal
\* to len_segments, the count in the seq field of the Sender's ESTABLISH.
C15_TotalNumIsEstablishCount ==
    spc \in {"receive", "done"} => total_num = len_segments

\* the Receiver has entered its receive loop after a handshake in which a SYN
\* was repeated, and the Sender's first DATA was sent before any was stored
C15_Witness ==
    /\ spc = "receive"
    /\ total_num = len_segments
    /\ retries >= 1
    /\ next_idx = 1
    /\ data_packet(1) \in c_sent
    /\ data_packet(1) \notin toServer

\* C16: an ESTABLISH that the Receiver takes before any valid SYN does not
\* count toward the handshake: the ESTABLISH flag is set only after the SYN
\* flag.
C16_EstablishCountsOnlyAfterSyn ==
    handshake_successful2 => handshake_successful1

\* C17: a valid ACK carrying ack makes base max(base, ack + 1), removes exactly
\* the keys <= ack from sent_packets and sends nothing; with ack < base the
\* Sender's state does not change, so base never decreases.
C17_AckMovesBaseForward ==
    [][\A p \in toClient, keep \in BOOLEAN :
          (/\ ClientRecvPacket(p, keep)
           /\ parse_packet(p).ok
           /\ parse_packet(p).packet_type = ACK)
          => LET ack == parse_packet(p).ack_num
             IN  /\ base' = IF ack + 1 > base THEN ack + 1 ELSE base
                 /\ base' >= base
                 /\ DOMAIN sent_packets' = {i \in DOMAIN sent_packets : i > ack}
                 /\ \A i \in DOMAIN sent_packets' :
                       sent_packets'[i] = sent_packets[i]
                 /\ next_seq_num' = next_seq_num
                 /\ toServer' = toServer
                 /\ ack < base =>
                       UNCHANGED <<clientVars, toServer, historyVars>>]_vars

\* the Sender waits with base past 1 while a stale ACK and an ACK that moves
\* base are both in flight
C17_Witness ==
    /\ cpc = "recv"
    /\ base = 2
    /\ ack_packet(0) \in toClient
    /\ ack_packet(2) \in toClient

C19_NoiseIgnoredBySender ==
    [][\A p \in toClient :
          (\/ \E pos \in 1..Len(p) : ClientRecvCorruptPacket(p, pos)
           \/ \E keep \in BOOLEAN :
                 /\ ClientRecvPacket(p, keep)
                 /\ parse_packet(p).ok
                 /\ parse_packet(p).packet_type # ACK)
          => UNCHANGED <<base, next_seq_num, sent_packets, toServer, c_sent>>]_vars

\* the Sender waits for an ACK with base past 1 while a late SYN_ACK and an
\* ACK are in flight to it
C19_Witness ==
    /\ cpc = "recv"
    /\ base > 1
    /\ syn_ack_packet \in toClient
    /\ \E n \in Indices : ack_packet(n) \in toClient

\* C20: in the receive loop a datagram that is corrupt, or valid and not DATA,
\* makes the Receiver send no ACK and leaves next_idx and data_received as
\* they are.
C20_NoiseIgnoredByReceiver ==
    [][\A p \in toServer :
          (\/ \E pos \in 1..Len(p) : ServerRecvCorruptPacket(p, pos)
           \/ \E keep \in BOOLEAN :
                 /\ ServerRecvPacket(p, keep)
                 /\ parse_packet(p).ok
                 /\ parse_packet(p).packet_type # DATA)
          => UNCHANGED <<next_idx, data_received, store_count, toClient,
                         s_sent>>]_vars

\* the Receiver is in its receive loop with a payload stored while a late SYN,
\* a late ESTABLISH and a DATA packet are in flight to it
C20_Witness ==
    /\ spc = "receive"
    /\ next_idx > 1
    /\ syn_packet \in toServer
    /\ establish_message \in toServer
    /\ \E i \in Indices : data_packet(i) \in toServer

\* C21: every step in which the Receiver takes a DATA packet sends an ACK
\* that carries next_idx - 1 as it is after the step; all of 1..next_idx-1 is
\* stored then; no ACK sent before carries more; and a DATA packet taken in
\* order moves next_idx by exactly one.
C21_CumulativeAck ==
    [][\A p \in toServer, keep \in BOOLEAN :
          (/\ ServerRecvPacket(p, keep)
           /\ parse_packet(p).ok
           /\ parse_packet(p).packet_type = DATA)
          => /\ toClient' = toClient \cup {ack_packet(next_idx' - 1)}
             /\ s_sent' = s_sent \cup {ack_packet(next_idx' - 1)}
             /\ 1..(next_idx' - 1) \subseteq DOMAIN data_received'
             /\ \A q \in s_sent :
                   parse_packet(q).packet_type = ACK
                       => parse_packet(q).ack_num <= next_idx' - 1
             /\ next_idx' >= next_idx
             /\ parse_packet(p).seq_num = next_idx
                   => next_idx' = next_idx + 1]_vars

\* the Receiver has left its receive loop having sent ACK 0 for a packet ahead
\* and then ACK 1, ACK 2 and ACK 3
C21_Witness ==
    /\ spc = "done"
    /\ \A n \in 0..3 : ack_packet(n) \in s_sent

\* C22: a call of split_random with Lmin > Lmax does not return and produces
\* no chunk after the placeholder.
C22_DegenerateLengthsFail ==
    segmenter.lmin > segmenter.lmax =>
        /\ segmenter.pc # "returned"
        /\ Len(segmenter.chunks) = 1

\* C23: in a call of split_random with Lmin <= Lmax, Lmin = 0 included, every
\* cut has a length of at least 1 and starts after the cut before it.
C23_EveryCutAdvances ==
    segmenter.lmin <= segmenter.lmax =>
        LET chunks == segmenter.chunks
        IN  /\ \A i \in 2..Len(chunks) : Len(chunks[i][1]) >= 1
            /\ \A i \in 2..(Len(chunks) - 1) : chunks[i][2] < chunks[i + 1][2]

\* C24: once the handshake has succeeded, base <= next_idx <= next_seq_num.
C24_BaseExpectedNextSeq ==
    handshake_successful =>
        /\ base <= next_idx
        /\ next_idx <= next_seq_num

\* the Receiver is ahead of base and behind next_seq_num while the Sender
\* waits, a stale ACK in flight
C24_Witness ==
    /\ cpc = "recv"
    /\ base < next_idx
    /\ next_idx < next_seq_num
    /\ ack_packet(0) \in toClient

====
